---- MODULE Spec2Model ----
(***************************************************************************)
(* Kanban board over a spreadsheet (app.py).  The script is re-run from    *)
(* top to bottom for every browser session and every widget interaction:   *)
(* it loads all rows through a process-wide cache with a time to live,     *)
(* groups them by stage, renders one card with a stage selector per row,   *)
(* and, when a selector differs from the stage the card is shown in,       *)
(* locates the row by identifier in column 1, writes the stage to column   *)
(* 8, clears the cache and restarts the script.                            *)
(*                                                                         *)
(* A cell of column 1 is a sequence of characters; cells of the other      *)
(* columns are words (strings).  Row 1 of the sheet is the header row.     *)
(* The connection and the worksheet (lines 71-75) are taken as resolved.   *)
(***************************************************************************)
EXTENDS Integers, Sequences, FiniteSets, TLC

VARIABLES
    sheet,      \* the worksheet: a sequence of rows, each a tuple of 8 cells
    cache,      \* the st.cache_data entry of load_data (shared by all sessions)
    pc,         \* per session: position of the script run
    df,         \* per session: the DataFrame load_data returned to this run
    pos,        \* per session: index of the card being rendered (stage-major order)
    cell,       \* per session: row of the cell worksheet.find returned
    sel,        \* per session: widget state of the selectboxes, by key
    writes,     \* per session: update_cell calls of the move in progress
    failed,     \* per session: keys whose move failed and was not re-selected since
    written,    \* per sheet row: the last value written to its stage cell, and by whom
    moves,      \* number of user selections made so far
    lastIO      \* the call the last step made

vars == <<sheet, cache, pc, df, pos, cell, sel, writes, failed, written, moves, lastIO>>

-----------------------------------------------------------------------------
(* Bounds of the model *)

MaxRows == 2        \* data rows of the worksheet
MaxMoves == 2       \* user selections in one behaviour
TickStep == 30      \* seconds that pass in one step of the clock

Sessions == {"A", "B"}

\* identifier cells of the worksheet: a canonical number, a number with a
\* leading zero, and a text
IdCells == {<<"7">>, <<"0", "7">>, <<"a">>}

\* stage cells the worksheet starts with: a listed stage and a legacy value
InitStages == {"Idear", "legacy"}

\* options the user picks in a selector: the first, a middle and the last stage
Targets == {"Enfocar", "Idear", "Escalar"}

-----------------------------------------------------------------------------
(* Program constants *)

TTL == 60
IdCol == 1
EstadoCol == 8

stages == <<"Enfocar", "Detectar", "Idear", "Diseñar MVP", "Pilotear", "Escalar">>

StageSet == {stages[k] : k \in 1..Len(stages)}

-----------------------------------------------------------------------------
(* gspread: get_all_records numericises every cell; str() formats it back *)

Digits == <<"0", "1", "2", "3", "4", "5", "6", "7", "8", "9">>

IsDigit(c) == \E k \in 1..Len(Digits) : Digits[k] = c

DigitVal(c) == (CHOOSE k \in 1..Len(Digits) : Digits[k] = c) - 1

RECURSIVE IntOf(_)
IntOf(cs) ==
    IF cs = <<>> THEN 0
    ELSE IntOf(SubSeq(cs, 1, Len(cs) - 1)) * 10 + DigitVal(cs[Len(cs)])

RECURSIVE StrOf(_)
StrOf(n) ==
    IF n < 10 THEN <<Digits[n + 1]>>
    ELSE StrOf(n \div 10) \o <<Digits[(n % 10) + 1]>>

NoKey == [kind |-> "none", n |-> 0, s |-> <<>>]

\* gspread.utils.numericise: int(value) when it parses, the text otherwise
numericise(cs) ==
    IF cs # <<>> /\ \A k \in 1..Len(cs) : IsDigit(cs[k])
    THEN [kind |-> "int", n |-> IntOf(cs), s |-> <<>>]
    ELSE [kind |-> "str", n |-> 0, s |-> cs]

\* str(ticket_id)
str(id) == IF id.kind = "int" THEN StrOf(id.n) ELSE id.s

\* worksheet.get_all_records() followed by pd.DataFrame(data) and the
\* default for a missing 'Estado' column
Records(sh) ==
    [j \in 1..(Len(sh) - 1) |->
        [id     |-> numericise(sh[j + 1][IdCol]),
         Estado |-> IF sh[1][EstadoCol] = "Estado" THEN sh[j + 1][EstadoCol] ELSE "None"]]

\* a lookup that returns the last matching row
findLast(sh, query, col) ==
    IF \E r \in 1..Len(sh) : sh[r][col] = query
    THEN CHOOSE r \in 1..Len(sh) :
            /\ sh[r][col] = query
            /\ \A q \in (r + 1)..Len(sh) : sh[q][col] # query
    ELSE 0

\* a lookup that falls back to the last row when nothing matches
findOrLast(sh, query, col) ==
    IF \E r \in 1..Len(sh) : sh[r][col] = query
    THEN CHOOSE r \in 1..Len(sh) :
            /\ sh[r][col] = query
            /\ \A q \in 1..(r - 1) : sh[q][col] # query
    ELSE Len(sh)

\* worksheet.find(query, in_column=col): the first matching row, 0 for none
find(sh, query, col) ==
    IF \E r \in 1..Len(sh) : sh[r][col] = query
    THEN CHOOSE r \in 1..Len(sh) :
            /\ sh[r][col] = query
            /\ \A q \in 1..(r - 1) : sh[q][col] # query
    ELSE 0

\* a write that counts the columns from 0
update_cellOffByOne(sh, row, col, value) == [sh EXCEPT ![row][col - 1] = value]

\* worksheet.update_cell(row, col, value)
update_cell(sh, row, col, value) == [sh EXCEPT ![row][col] = value]

-----------------------------------------------------------------------------
(* Board projection *)

\* df[df['Estado'] == stage], as the index labels iterrows() yields
RECURSIVE StageTicketsUpTo(_, _, _)
StageTicketsUpTo(d, stage, n) ==
    IF n = 0 THEN <<>>
    ELSE StageTicketsUpTo(d, stage, n - 1)
            \o (IF d[n].Estado = stage THEN <<n>> ELSE <<>>)

\* a filter that keeps every row
stage_ticketsAll(d, stage) == [i \in 1..Len(d) |-> i]

stage_tickets(d, stage) == StageTicketsUpTo(d, stage, Len(d))

\* the cards in the order the two nested loops render them
RECURSIVE CardsUpTo(_, _)
CardsUpTo(d, k) ==
    IF k = 0 THEN <<>>
    ELSE CardsUpTo(d, k - 1) \o stage_tickets(d, stages[k])

Cards(d) == CardsUpTo(d, Len(stages))

-----------------------------------------------------------------------------
(* State *)

NoCache == [has |-> FALSE, data |-> <<>>, age |-> 0]

\* widget state of a selectbox: the stage it was created for (its default
\* index) and the option chosen; a selectbox whose default index changes is
\* a new widget and shows its default
NoSel == [at |-> "-", to |-> "-"]

Keys == {numericise(c) : c \in IdCells}

\* a call: who made it, for which card (key, the stage the card is shown in,
\* the option selected), the row it concerns, how it ended (the message
\* shown), and whether the move had failed before without a new selection
NoIO == [op |-> "none", by |-> "-", key |-> NoKey, shown |-> "-", val |-> "-",
         row |-> 0, res |-> "-", retry |-> FALSE]

NoWrite == [val |-> "-", by |-> {}, stale |-> FALSE]

Header == {<<<<"I", "D">>, "-", "-", "-", "-", "-", "-", h>> : h \in {"Estado", "Etapa"}}

DataRows == {<<c, "-", "-", "-", "-", "-", "-", g>> : c \in IdCells, g \in InitStages}

RECURSIVE RowSeqs(_)
RowSeqs(n) ==
    IF n = 0 THEN {<<>>}
    ELSE RowSeqs(n - 1) \cup
         {Append(rs, r) : rs \in {q \in RowSeqs(n - 1) : Len(q) = n - 1}, r \in DataRows}

InitSheets == {<<h>> \o rs : h \in Header, rs \in RowSeqs(MaxRows)}

\* worksheets of one ticket, with the expected header
SharedSheets ==
    {<<h, r>> : h \in {g \in Header : g[EstadoCol] = "Estado"}, r \in DataRows}

\* the state when the sessions of `on` open the page
InitWith(sheets, on) ==
    /\ sheet \in sheets
    /\ pc = [s \in Sessions |-> IF s \in on THEN "start" ELSE "closed"]
    /\ cache = NoCache
    /\ df = [s \in Sessions |-> <<>>]
    /\ pos = [s \in Sessions |-> 1]
    /\ cell = [s \in Sessions |-> 0]
    /\ sel = [s \in Sessions |-> [k \in Keys |-> NoSel]]
    /\ writes = [s \in Sessions |-> 0]
    /\ failed = [s \in Sessions |-> {}]
    /\ written = [r \in 1..Len(sheet) |-> NoWrite]
    /\ moves = 0
    /\ lastIO = NoIO

\* one browser session, any worksheet
Init == InitWith(InitSheets, {"A"})

\* two browser sessions on the same ticket
InitTwo == InitWith(SharedSheets, Sessions)

-----------------------------------------------------------------------------
(* One script run of a session *)

\* an entry is served up to and including the time to live
FreshInclusive(c) == c.has /\ c.age <= TTL

\* @st.cache_data(ttl=60): an entry younger than the time to live is served
Fresh(c) == c.has /\ c.age < TTL

\* st.selectbox(options=stages, index=stages.index(stage), key=...)
selectbox(w, g) == IF w.at = g THEN w.to ELSE g

\* the card at position p of the board of d: its row, key and stage
CardAt(d, p) == d[Cards(d)[p]]

\* the update block runs for every card
MovedAlways(new, shown) == TRUE

\* if new_stage != stage
Moved(new, shown) == new # shown

\* a second selectbox of one run with a key already used: the run stops
\* with an exception
DuplicateKey(d, p) == \E j \in 1..(p - 1) : CardAt(d, j).id = CardAt(d, p).id

\* the loops over stages and cards, from card p on: cards whose selector
\* shows the stage of their column are rendered and passed; the result is
\* the position of the first card that stops the loop (a move, or a
\* duplicate key), or one past the last card
RECURSIVE RenderFrom(_, _, _)
RenderFrom(d, w, p) ==
    IF p > Len(Cards(d)) THEN p
    ELSE IF DuplicateKey(d, p) THEN p
    ELSE IF Moved(selectbox(w[CardAt(d, p).id], CardAt(d, p).Estado), CardAt(d, p).Estado) THEN p
    ELSE RenderFrom(d, w, p + 1)

\* where the run is when the loop stopped at position p
PcAt(d, p) ==
    IF p > Len(Cards(d)) THEN "idle"
    ELSE IF DuplicateKey(d, p) THEN "idle"
    ELSE "card"

ticket_id(s) == CardAt(df[s], pos[s]).id

stage(s) == CardAt(df[s], pos[s]).Estado

new_stage(s) == selectbox(sel[s][ticket_id(s)], stage(s))

CardIO(s, op) ==
    [NoIO EXCEPT !.op = op, !.by = s, !.key = ticket_id(s), !.shown = stage(s),
                 !.val = new_stage(s), !.retry = ticket_id(s) \in failed[s]]

\* df = load_data(worksheet); if df.empty: warning; else the board, up to
\* the first card whose selector was changed
load_data(s) ==
    /\ pc[s] = "start"
    /\ \/ /\ Fresh(cache)
          /\ df' = [df EXCEPT ![s] = cache.data]
          /\ cache' = cache
          /\ lastIO' = [NoIO EXCEPT !.op = "cache_hit", !.by = s]
       \/ /\ ~Fresh(cache)
          /\ \E ok \in BOOLEAN :
                LET data == IF ok THEN Records(sheet) ELSE <<>> IN
                /\ df' = [df EXCEPT ![s] = data]
                /\ cache' = [has |-> TRUE, data |-> data, age |-> 0]
                /\ lastIO' = [NoIO EXCEPT !.op = "get_all_records", !.by = s,
                                          !.res = IF ok THEN "ok" ELSE "error"]
    /\ pos' = [pos EXCEPT ![s] = RenderFrom(df'[s], sel[s], 1)]
    /\ pc' = [pc EXCEPT ![s] = PcAt(df'[s], pos'[s])]
    /\ writes' = [writes EXCEPT ![s] = 0]
    /\ UNCHANGED <<sheet, cell, sel, failed, written, moves>>

\* except CellNotFound / except Exception: st.error, then the cards that follow
Fail(s) ==
    /\ failed' = [failed EXCEPT ![s] = failed[s] \cup {ticket_id(s)}]
    /\ pos' = [pos EXCEPT ![s] = RenderFrom(df[s], sel[s], pos[s] + 1)]
    /\ pc' = [pc EXCEPT ![s] = PcAt(df[s], pos'[s])]

\* cell = worksheet.find(str(ticket_id), in_column=1)
Locate(s) ==
    /\ pc[s] = "card"
    /\ writes' = [writes EXCEPT ![s] = 0]
    /\ LET r == find(sheet, str(ticket_id(s)), IdCol) IN
          \/ /\ r # 0
             /\ cell' = [cell EXCEPT ![s] = r]
             /\ pc' = [pc EXCEPT ![s] = "update"]
             /\ lastIO' = [CardIO(s, "find") EXCEPT !.row = r, !.res = "found"]
             /\ UNCHANGED <<failed, pos>>
          \/ /\ r = 0
             /\ Fail(s)
             /\ lastIO' = [CardIO(s, "find") EXCEPT !.res = "RecordNotFound"]
             /\ cell' = cell
          \/ /\ Fail(s)
             /\ lastIO' = [CardIO(s, "find") EXCEPT !.res = "BackingStoreError"]
             /\ cell' = cell
    /\ UNCHANGED <<sheet, cache, df, sel, written, moves>>

\* an update whose error handler clears the cache and restarts the script
UpdateCellClearsOnError(s) ==
    /\ pc[s] = "update"
    /\ \/ /\ sheet' = update_cell(sheet, cell[s], EstadoCol, new_stage(s))
          /\ writes' = [writes EXCEPT ![s] = writes[s] + 1]
          /\ failed' = [failed EXCEPT ![s] = failed[s] \ {ticket_id(s)}]
          /\ written' = [written EXCEPT ![cell[s]] =
                           [val   |-> new_stage(s),
                            by    |-> written[cell[s]].by \cup {s},
                            stale |-> sheet[cell[s]][EstadoCol] # stage(s)]]
          /\ lastIO' = [CardIO(s, "update_cell") EXCEPT !.row = cell[s], !.res = "Succeeded"]
       \/ /\ failed' = [failed EXCEPT ![s] = failed[s] \cup {ticket_id(s)}]
          /\ lastIO' = [CardIO(s, "update_cell") EXCEPT !.row = cell[s],
                                                       !.res = "BackingStoreError"]
          /\ UNCHANGED <<sheet, writes, written>>
    /\ pc' = [pc EXCEPT ![s] = "clear"]
    /\ UNCHANGED <<cache, df, pos, cell, sel, moves>>

\* an update that refuses to write when the stage cell no longer holds the
\* stage the card is shown in
UpdateCellIfUnchanged(s) ==
    /\ pc[s] = "update"
    /\ \/ /\ sheet[cell[s]][EstadoCol] = stage(s)
          /\ sheet' = update_cell(sheet, cell[s], EstadoCol, new_stage(s))
          /\ writes' = [writes EXCEPT ![s] = writes[s] + 1]
          /\ pc' = [pc EXCEPT ![s] = "clear"]
          /\ failed' = [failed EXCEPT ![s] = failed[s] \ {ticket_id(s)}]
          /\ written' = [written EXCEPT ![cell[s]] =
                           [val   |-> new_stage(s),
                            by    |-> written[cell[s]].by \cup {s},
                            stale |-> FALSE]]
          /\ lastIO' = [CardIO(s, "update_cell") EXCEPT !.row = cell[s], !.res = "Succeeded"]
          /\ pos' = pos
       \/ /\ sheet[cell[s]][EstadoCol] # stage(s)
          /\ Fail(s)
          /\ lastIO' = [CardIO(s, "update_cell") EXCEPT !.row = cell[s], !.res = "Conflict"]
          /\ UNCHANGED <<sheet, writes, written>>
       \/ /\ Fail(s)
          /\ lastIO' = [CardIO(s, "update_cell") EXCEPT !.row = cell[s],
                                                       !.res = "BackingStoreError"]
          /\ UNCHANGED <<sheet, writes, written>>
    /\ UNCHANGED <<cache, df, cell, sel, moves>>

\* worksheet.update_cell(cell.row, 8, new_stage); st.success(...)
UpdateCell(s) ==
    /\ pc[s] = "update"
    /\ \/ /\ sheet' = update_cell(sheet, cell[s], EstadoCol, new_stage(s))
          /\ writes' = [writes EXCEPT ![s] = writes[s] + 1]
          /\ pc' = [pc EXCEPT ![s] = "clear"]
          /\ failed' = [failed EXCEPT ![s] = failed[s] \ {ticket_id(s)}]
          /\ written' = [written EXCEPT ![cell[s]] =
                           [val   |-> new_stage(s),
                            by    |-> written[cell[s]].by \cup {s},
                            stale |-> sheet[cell[s]][EstadoCol] # stage(s)]]
          /\ lastIO' = [CardIO(s, "update_cell") EXCEPT !.row = cell[s], !.res = "Succeeded"]
          /\ pos' = pos
       \/ /\ Fail(s)
          /\ lastIO' = [CardIO(s, "update_cell") EXCEPT !.row = cell[s],
                                                       !.res = "BackingStoreError"]
          /\ UNCHANGED <<sheet, writes, written>>
    /\ UNCHANGED <<cache, df, cell, sel, moves>>

\* st.cache_data.clear(); st.rerun()
ClearCache(s) ==
    /\ pc[s] = "clear"
    /\ cache' = NoCache
    /\ pc' = [pc EXCEPT ![s] = "start"]
    /\ lastIO' = [CardIO(s, "clear") EXCEPT !.row = cell[s]]
    /\ UNCHANGED <<sheet, df, pos, cell, sel, writes, failed, written, moves>>

\* the user picks another option in the selector of card j of the board the
\* session shows; the script runs again
Select(s, j, g) ==
    /\ pc[s] = "idle"
    /\ moves < MaxMoves
    /\ j \in 1..(pos[s] - 1)
    /\ LET rec == CardAt(df[s], j) IN
        /\ g # selectbox(sel[s][rec.id], rec.Estado)
        /\ sel' = [sel EXCEPT ![s][rec.id] = [at |-> rec.Estado, to |-> g]]
        /\ failed' = [failed EXCEPT ![s] = failed[s] \ {rec.id}]
        /\ lastIO' = [NoIO EXCEPT !.op = "select", !.by = s, !.key = rec.id,
                                  !.shown = rec.Estado, !.val = g]
    /\ moves' = moves + 1
    /\ pc' = [pc EXCEPT ![s] = "start"]
    /\ UNCHANGED <<sheet, cache, df, pos, cell, writes, written>>

\* time passes: the cache entry ages
Tick ==
    /\ cache.has
    /\ cache.age < TTL
    /\ cache' = [cache EXCEPT !.age = IF cache.age + TickStep > TTL THEN TTL
                                      ELSE cache.age + TickStep]
    /\ lastIO' = [NoIO EXCEPT !.op = "tick"]
    /\ UNCHANGED <<sheet, pc, df, pos, cell, sel, writes, failed, written, moves>>

Next ==
    \/ \E s \in Sessions : load_data(s)
    \/ \E s \in Sessions : Locate(s)
    \/ \E s \in Sessions : UpdateCell(s)
    \/ \E s \in Sessions : ClearCache(s)
    \/ \E s \in Sessions, j \in 1..MaxRows, g \in Targets : Select(s, j, g)
    \/ Tick

Spec == Init /\ [][Next]_vars

SpecTwo == InitTwo /\ [][Next]_vars

-----------------------------------------------------------------------------
(* Properties *)

LoadOps == {"cache_hit", "get_all_records"}

MoveOps == {"find", "update_cell", "clear"}

\* the last step was a successful update_cell
Wrote == lastIO.op = "update_cell" /\ lastIO.res = "Succeeded"

\* C1: round trip.  Right after an update (find the shown id in column 1,
\* write S to column 8 of the found row) has succeeded, a fresh fetch of all
\* rows holds, for the row found, a record with that id whose stage is S.
C1_RoundTrip ==
    Wrote =>
        /\ lastIO.row - 1 \in 1..Len(Records(sheet))
        /\ Records(sheet)[lastIO.row - 1].id = lastIO.key
        /\ Records(sheet)[lastIO.row - 1].Estado = lastIO.val

C1_Witness == Wrote /\ lastIO.key.kind = "int" /\ lastIO.val = "Escalar"

\* C2: not found.  When the lookup completes and the identifier searched
\* for is in no cell of column 1, the move ends with the RecordNotFound
\* message, writes no cell, and leaves the worksheet and the cache as they were.
C2_NotFoundNoWrite ==
    [][\A s \in Sessions :
        ( /\ pc[s] = "card"
          /\ lastIO'.op = "find"
          /\ lastIO'.by = s
          /\ lastIO'.res # "BackingStoreError"
          /\ \A r \in 1..Len(sheet) : sheet[r][IdCol] # str(lastIO'.key) )
        => /\ lastIO'.res = "RecordNotFound"
           /\ sheet' = sheet
           /\ cache' = cache
           /\ writes'[s] = 0
           /\ pc'[s] \notin {"update", "clear"}]_vars

C2_Witness == lastIO.op = "find" /\ lastIO.res = "RecordNotFound"

\* C3: a successful move writes exactly one cell, the stage cell of the row
\* found; the cache is invalidated after that write and before the script
\* restarts, and nothing but a move whose write succeeded invalidates it.
C3_OneWriteThenInvalidate ==
    [][\A s \in Sessions :
        /\ (pc[s] = "clear" /\ pc'[s] # "clear")
              => /\ writes[s] = 1
                 /\ ~cache'.has
                 /\ pc'[s] = "start"
                 /\ sheet' = sheet
        /\ (pc'[s] = "start" /\ pc[s] \notin {"start", "idle"})
              => pc[s] = "clear" /\ ~cache'.has
        /\ (writes'[s] > writes[s])
              => /\ writes'[s] = 1
                 /\ pc'[s] = "clear"
                 /\ \A r \in 1..Len(sheet), c \in 1..EstadoCol :
                        sheet'[r][c] # sheet[r][c] => r = cell[s] /\ c = EstadoCol
        /\ (cache.has /\ ~cache'.has)
              => \E u \in Sessions : pc[u] = "clear" /\ writes[u] = 1 /\ pc'[u] = "start"]_vars

C3_Witness ==
    /\ lastIO.op = "clear"
    /\ lastIO.shown = "Idear"
    /\ lastIO.val = "Escalar"
    /\ writes[lastIO.by] = 1
    /\ ~cache.has
    /\ sheet[lastIO.row][EstadoCol] = "Escalar"

\* C4: a selector that shows the stage of its card's column starts nothing:
\* every lookup, write and invalidation is for a card whose selected option
\* differs from the stage it is shown in.
C4_NoOpWhenSame == lastIO.op \in MoveOps => lastIO.val # lastIO.shown

\* a run that rendered a card whose selector the user set back to the stage
\* shown, and ended without a lookup
C4_Witness ==
    \E s \in Sessions :
        /\ pc[s] = "idle"
        /\ lastIO.op \in LoadOps
        /\ lastIO.by = s
        /\ \E j \in 1..Len(Cards(df[s])) :
              /\ j < pos[s]
              /\ sel[s][CardAt(df[s], j).id].at = CardAt(df[s], j).Estado
              /\ sel[s][CardAt(df[s], j).id].to = CardAt(df[s], j).Estado

\* number of positions of the sequence q that hold x
Occurrences(q, x) == Cardinality({p \in 1..Len(q) : q[p] = x})

\* C5: grouping by stage.  A record whose stage is a listed stage is in the
\* bucket of that stage exactly once and in no other bucket, a record whose
\* stage is not listed is in no bucket, and every bucket keeps the order of
\* the snapshot.
C5_GroupByStage ==
    \A s \in Sessions :
        /\ \A i \in 1..Len(df[s]), k \in 1..Len(stages) :
              Occurrences(stage_tickets(df[s], stages[k]), i)
                  = IF df[s][i].Estado = stages[k] THEN 1 ELSE 0
        /\ \A k \in 1..Len(stages) :
              LET b == stage_tickets(df[s], stages[k]) IN
              /\ \A p \in 1..Len(b) : b[p] \in 1..Len(df[s])
              /\ \A p, q \in 1..Len(b) : p < q => b[p] < b[q]

C5_Witness ==
    \E s \in Sessions :
        /\ Len(df[s]) = 2
        /\ df[s][1].Estado = "legacy"
        /\ df[s][2].Estado = "Escalar"
        /\ Cards(df[s]) = <<2>>

\* C6: identifier normalization.  For every record of a fetched snapshot the
\* string form of its id is the text of its identifier cell, so the exact
\* match lookup by that string finds a row holding the record's identifier.
C6_IdLookupStable ==
    \A s \in Sessions : \A i \in 1..Len(df[s]) :
        /\ str(df[s][i].id) = sheet[i + 1][IdCol]
        /\ find(sheet, str(df[s][i].id), IdCol) # 0

\* C7: load_data serves the held snapshot, without a fetch, exactly while
\* the entry exists and is younger than 60; otherwise it fetches all rows
\* and stores the result as the new entry of age 0.  Clearing removes the
\* entry whatever its age, so the next load fetches.
C7_CacheContract ==
    [][\A s \in Sessions :
        /\ (pc[s] = "start" /\ pc'[s] # "start")
              => IF cache.has /\ cache.age < TTL
                 THEN /\ lastIO'.op = "cache_hit"
                      /\ df'[s] = cache.data
                      /\ cache' = cache
                 ELSE /\ lastIO'.op = "get_all_records"
                      /\ cache'.has
                      /\ cache'.age = 0
                      /\ cache'.data = df'[s]
                      /\ lastIO'.res = "ok" => df'[s] = Records(sheet)
        /\ (pc[s] = "clear" /\ pc'[s] # "clear") => ~cache'.has]_vars

\* a snapshot of positive age served from the cache
C7_Witness == lastIO.op = "cache_hit" /\ cache.age > 0 /\ cache.data # <<>>

\* C8: a successful update changes the stage cell of the first row, from
\* the top, whose identifier cell is exactly the string searched for, and
\* no other cell of the worksheet.
C8_FirstMatchOnly ==
    [][\A s \in Sessions :
        ( /\ pc[s] = "update"
          /\ lastIO'.op = "update_cell"
          /\ lastIO'.by = s
          /\ lastIO'.res = "Succeeded" )
        => LET q == str(lastIO'.key)
               r == lastIO'.row
           IN /\ r \in 1..Len(sheet)
              /\ sheet[r][IdCol] = q
              /\ \A x \in 1..(r - 1) : sheet[x][IdCol] # q
              /\ Len(sheet') = Len(sheet)
              /\ sheet'[r][EstadoCol] = lastIO'.val
              /\ \A x \in 1..Len(sheet), c \in 1..EstadoCol :
                    (x # r \/ c # EstadoCol) => sheet'[x][c] = sheet[x][c]]_vars

\* a successful update of a row that a later row shares its identifier with
C8_Witness ==
    /\ Wrote
    /\ \E x \in (lastIO.row + 1)..Len(sheet) : sheet[x][IdCol] = sheet[lastIO.row][IdCol]
    /\ \E x \in (lastIO.row + 1)..Len(sheet) : sheet[x][EstadoCol] # lastIO.val

\* C9: no retry.  A move that failed is not attempted again: no later run
\* looks the record up unless the user made a new selection for it.
C9_NoRetry == lastIO.op = "find" => ~lastIO.retry

\* C10: last write wins.  The stage cell of a row holds the value of the
\* last successful write to it, whichever session made it and whatever
\* stage that session was showing for the card; no write is refused
\* because the cell no longer holds the stage shown.
C10_LastWriteWins ==
    /\ \A r \in 1..Len(sheet) :
          written[r].val # "-" => sheet[r][EstadoCol] = written[r].val
    /\ (lastIO.op = "update_cell" /\ lastIO.res # "Succeeded")
          => lastIO.res = "BackingStoreError"

\* both sessions wrote the stage cell of the row, the last of them while
\* showing a stage the cell no longer held
C10_Witness ==
    /\ Wrote
    /\ written[lastIO.row].by = Sessions
    /\ written[lastIO.row].stale
    /\ sheet[lastIO.row][EstadoCol] = lastIO.val

====
